---------------------------- MODULE Spec2Model ----------------------------
(***************************************************************************)
(* A model of the LAMMPS accelerator library's neighbor-list classes:      *)
(*   - Neighbor        (src/lib/gpu/neighbor.h): the capacity state        *)
(*     {_max_atoms, _max_host, _max_nbors} and the two resize overloads;   *)
(*   - NeighborShared  (src/lib/gpu/neighbor_shared.cpp): the registry of  *)
(*     compiled programs and kernel handles, compile_kernels and clear.    *)
(* A leading underscore of a C++ member is dropped (_max_atoms is          *)
(* max_atoms); otherwise the source's names are kept.                      *)
(***************************************************************************)
EXTENDS Integers, Sequences, FiniteSets

(***************************************************************************)
(* Bounds.  The arguments of resize are drawn from ArgVals: zero and two   *)
(* adjacent values above ten, where the truncation of n*1.10 adds a whole  *)
(* unit of headroom (int(9*1.10) = 9, int(11*1.10) = 12).  With InitCaps   *)
(* a request can be below, equal to, one above and far above a capacity.   *)
(***************************************************************************)
MaxArg == 12

ArgVals == {0, MaxArg - 1, MaxArg}

\* The capacities Neighbor::init may have left behind.
InitCaps == {0, MaxArg - 1}

Modes == {0, 1, 2}            \* HostNeighbor, DeviceNeighbor, HostBinDeviceBuild

Backends == {"CUDA", "OPENCL"} \* the build: USE_OPENCL undefined / defined

Kernels == {"k_nbor", "k_cell_id", "k_cell_counts",
            "k_build_nbor", "k_transpose", "k_special"}

VARIABLES
  \* ---- Neighbor (one manager) ----
  max_atoms,     \* _max_atoms
  max_host,      \* _max_host
  max_nbors,     \* _max_nbors
  buffers,       \* the buffer set alloc() sized last: [atoms, host, nbors, valid]
  lastN,         \* the last resize call: its arguments, the state before it, its effects
  allocated,     \* _allocated
  use_packing,   \* _use_packing
  n_gpu_nbor,    \* _gpu_nbor of the manager
  gpu_bytes,     \* _gpu_bytes
  c_bytes,       \* _c_bytes
  cell_bytes,    \* _cell_bytes
  held,          \* TRUE while the manager holds its device and host buffers
  fault,         \* TRUE once buffers were released that were not held
  life,          \* "constructed", "initialized", "cleared" or "destroyed"
  lastM,         \* the last call of init, clear, packing, gpu_bytes or the destructor
  dev_nbor,      \* dev_nbor: the device neighbor matrix, row after row
  dev_packed,    \* dev_packed: the packed storage
  nbor_pitch,    \* _nbor_pitch: the stride in elements of a matrix row
  lastC,         \* the last copy_unpacked call, _use_packing and the buffers before it
  numj,          \* the caller's array of neighbor counts
  ilist,         \* the caller's list of particle indices
  lastL,         \* the last max_nbor_loop call, its result and the arrays before it
  \* ---- NeighborShared (the registry) ----
  backend,       \* which backend the library was built for
  compiled,      \* _compiled
  gpu_nbor,      \* _gpu_nbor of the registry
  nbor_program,  \* the object behind the pointer: "none", "created", "loaded",
                 \* "deleted", or "bad_delete" once delete hit a pointer to no object
  build_program,
  kernels,       \* kernel handle -> [bound, prog, loaded]
  neigh_tex,     \* TRUE when get_texture has bound the texture
  created,       \* number of `new UCL_Program` executed since the last release
  terminated,    \* exit(1) was called
  lastS          \* the last registry call: its argument, the registry before it,
                 \* and whether the call before it was a release

nvars == <<max_atoms, max_host, max_nbors, buffers, lastN>>
svars == <<backend, compiled, gpu_nbor, nbor_program, build_program, kernels,
           neigh_tex, created, terminated, lastS>>
mvars == <<allocated, use_packing, n_gpu_nbor, gpu_bytes, c_bytes, cell_bytes,
           held, fault, life, lastM>>
dvars == <<dev_nbor, dev_packed, nbor_pitch, lastC, numj, ilist, lastL>>
vars == <<nvars, svars, mvars, dvars>>

-----------------------------------------------------------------------------
(***************************************************************************)
(* Neighbor::resize                                                        *)
(***************************************************************************)

\* A mutant of Headroom: the request is taken as the new capacity, no headroom.
HeadroomNone(n) == n

\* static_cast<int>(static_cast<double>(n)*1.10).  The double nearest 1.10 is
\* 1.1 + 8.9e-17, so for 0 <= n < 2^31/1.1 the product lies within 2e-7 above
\* 11n/10 and never below it: its truncation is the integer quotient of 11n by 10.
Headroom(n) == (n * 11) \div 10

\* The manager's fields as one value, with the caller's success flag and the
\* list of alloc() calls made so far in the running call.
NeighborState(success) ==
  [max_atoms |-> max_atoms, max_host |-> max_host, max_nbors |-> max_nbors,
   buffers |-> buffers, success |-> success, allocs |-> <<>>]

\* alloc(success): frees and reallocates the whole buffer set from the capacity
\* fields as they are when it is called; `ok` is whether the device and host
\* could satisfy the request.  A failure clears the caller's flag.
Alloc(s, ok) ==
  [s EXCEPT !.buffers = [atoms |-> s.max_atoms, host |-> s.max_host,
                         nbors |-> s.max_nbors, valid |-> ok],
            !.success = s.success /\ ok,
            !.allocs = Append(@, <<s.max_atoms, s.max_host, s.max_nbors>>)]

\* A mutant of ResizeNeeded3: the comparison is >= instead of >.
ResizeNeeded3Eq(s, inum, max_nbor) ==
  inum >= s.max_atoms \/ max_nbor >= s.max_nbors

\* if (inum>_max_atoms || max_nbor>_max_nbors)
ResizeNeeded3(s, inum, max_nbor) ==
  inum > s.max_atoms \/ max_nbor > s.max_nbors

\* A mutant of ResizeNeeded4: the three tests are joined by && instead of ||.
ResizeNeeded4All(s, inum, host_inum, max_nbor) ==
  inum > s.max_atoms /\ max_nbor > s.max_nbors /\ host_inum > s.max_host

\* if (inum>_max_atoms || max_nbor>_max_nbors || host_inum>_max_host)
ResizeNeeded4(s, inum, host_inum, max_nbor) ==
  inum > s.max_atoms \/ max_nbor > s.max_nbors \/ host_inum > s.max_host

\* A mutant of GrowNbors: _max_nbors is assigned without the test, as
\* _max_atoms is.
GrowNborsAlways(s, max_nbor) == [s EXCEPT !.max_nbors = Headroom(max_nbor)]

\* if (max_nbor>_max_nbors) _max_nbors=static_cast<int>(...max_nbor...*1.10);
GrowNbors(s, max_nbor) ==
  IF max_nbor > s.max_nbors
  THEN [s EXCEPT !.max_nbors = Headroom(max_nbor)]
  ELSE s

\* resize(inum, max_nbor, success)
Resize3(s, inum, max_nbor, ok) ==
  IF ResizeNeeded3(s, inum, max_nbor)
  THEN LET s1 == [s EXCEPT !.max_atoms = Headroom(inum)]
           s2 == GrowNbors(s1, max_nbor)
       IN  Alloc(s2, ok)
  ELSE s

\* A mutant of Resize4: alloc is called before _max_nbors is updated.
Resize4AllocEarly(s, inum, host_inum, max_nbor, ok) ==
  IF ResizeNeeded4(s, inum, host_inum, max_nbor)
  THEN LET s1 == [s EXCEPT !.max_atoms = Headroom(inum)]
           s2 == [s1 EXCEPT !.max_host = Headroom(host_inum)]
           s3 == Alloc(s2, ok)
       IN  GrowNbors(s3, max_nbor)
  ELSE s

\* resize(inum, host_inum, max_nbor, success)
Resize4(s, inum, host_inum, max_nbor, ok) ==
  IF ResizeNeeded4(s, inum, host_inum, max_nbor)
  THEN LET s1 == [s EXCEPT !.max_atoms = Headroom(inum)]
           s2 == [s1 EXCEPT !.max_host = Headroom(host_inum)]
           s3 == GrowNbors(s2, max_nbor)
       IN  Alloc(s3, ok)
  ELSE s

\* What is kept of a resize call: the form, the arguments, the flag as passed
\* and as returned, the manager before the call, and the alloc() calls made.
CallRecord(op, inum, host_inum, max_nbor, success, t) ==
  [op |-> op, inum |-> inum, host_inum |-> host_inum, max_nbor |-> max_nbor,
   success_in |-> success, success_out |-> t.success,
   pre |-> [max_atoms |-> max_atoms, max_host |-> max_host,
            max_nbors |-> max_nbors, buffers |-> buffers],
   allocs |-> t.allocs]

Resize3Call ==
  \E inum \in ArgVals, max_nbor \in ArgVals, success \in BOOLEAN, ok \in BOOLEAN :
    LET t == Resize3(NeighborState(success), inum, max_nbor, ok) IN
      /\ max_atoms' = t.max_atoms
      /\ max_host' = t.max_host
      /\ max_nbors' = t.max_nbors
      /\ buffers' = t.buffers
      /\ lastN' = CallRecord("resize3", inum, 0, max_nbor, success, t)
      /\ UNCHANGED <<svars, mvars, dvars>>

Resize4Call ==
  \E inum \in ArgVals, host_inum \in ArgVals, max_nbor \in ArgVals,
     success \in BOOLEAN, ok \in BOOLEAN :
    LET t == Resize4(NeighborState(success), inum, host_inum, max_nbor, ok) IN
      /\ max_atoms' = t.max_atoms
      /\ max_host' = t.max_host
      /\ max_nbors' = t.max_nbors
      /\ buffers' = t.buffers
      /\ lastN' = CallRecord("resize4", inum, host_inum, max_nbor, success, t)
      /\ UNCHANGED <<svars, mvars, dvars>>

\* The manager after Neighbor::init: some capacities, buffers sized to them.
InitNeighbor ==
  /\ max_atoms \in InitCaps
  /\ max_host \in InitCaps
  /\ max_nbors \in InitCaps
  /\ buffers = [atoms |-> max_atoms, host |-> max_host, nbors |-> max_nbors,
                valid |-> TRUE]
  /\ lastN = [op |-> "none", inum |-> 0, host_inum |-> 0, max_nbor |-> 0,
              success_in |-> TRUE, success_out |-> TRUE,
              pre |-> [max_atoms |-> max_atoms, max_host |-> max_host,
                       max_nbors |-> max_nbors, buffers |-> buffers],
              allocs |-> <<>>]

-----------------------------------------------------------------------------
(***************************************************************************)
(* Neighbor: construction, init, clear, the destructor, packing, gpu_bytes *)
(***************************************************************************)

\* #define IJ_SIZE 131072
IJ_SIZE == 131072

\* sizeof(int)
SizeofInt == 4

\* The value of a member no statement has assigned yet.
Undef == -1

\* The byte counts alloc() may record.
ByteVals == {0, SizeofInt * MaxArg}

\* The particle and neighbor counts init is called with.
InitArgs == {0, MaxArg}

\* A mutant of ConstructedAllocated: the initializer of _allocated is missing
\* and the member happens to hold true.
ConstructedAllocatedUnset == TRUE

\* Neighbor() : _allocated(false), ...
ConstructedAllocated == FALSE

\* Neighbor() : ..., _use_packing(false)
ConstructedUsePacking == FALSE

\* The manager's lifecycle and accounting fields as one value.
Manager ==
  [allocated |-> allocated, use_packing |-> use_packing, n_gpu_nbor |-> n_gpu_nbor,
   gpu_bytes |-> gpu_bytes, c_bytes |-> c_bytes, cell_bytes |-> cell_bytes,
   held |-> held, fault |-> fault, life |-> life]

SetManager(s) ==
  /\ allocated = s.allocated
  /\ use_packing = s.use_packing
  /\ n_gpu_nbor = s.n_gpu_nbor
  /\ gpu_bytes = s.gpu_bytes
  /\ c_bytes = s.c_bytes
  /\ cell_bytes = s.cell_bytes
  /\ held = s.held
  /\ fault = s.fault
  /\ life = s.life

\* The manager as the constructor leaves it: two flags set, nothing else.
Constructed ==
  [allocated |-> ConstructedAllocated, use_packing |-> ConstructedUsePacking,
   n_gpu_nbor |-> Undef, gpu_bytes |-> Undef, c_bytes |-> Undef,
   cell_bytes |-> Undef, held |-> FALSE, fault |-> FALSE, life |-> "constructed"]

\* A manager after init for mode m, with the byte counts alloc() recorded.
Initialized(m, gb, cb, lb) ==
  [allocated |-> TRUE, use_packing |-> ConstructedUsePacking,
   n_gpu_nbor |-> m, gpu_bytes |-> gb, c_bytes |-> cb,
   cell_bytes |-> lb, held |-> TRUE, fault |-> FALSE, life |-> "initialized"]

\* No call made yet; `pre` is a manager value only after clear, the
\* destructor and gpu_bytes.
NoCall == [op |-> "none", prev |-> "none", pre |-> Constructed, result |-> 0]

\* packing(use_packing)
Packing(s, b) == [s EXCEPT !.use_packing = b]

\* A mutant of GpuBytes: the test is written _gpu_nbor=0, an assignment whose
\* value is false.
GpuBytesAssign(s) ==
  [result |-> s.gpu_bytes + s.c_bytes + s.cell_bytes,
   state |-> [s EXCEPT !.n_gpu_nbor = 0]]

\* gpu_bytes(): the value returned and the manager after the call.  The
\* counters are whole numbers of bytes far below 2^53, so the double sum is
\* the integer sum.
GpuBytes(s) ==
  LET res == s.gpu_bytes + s.c_bytes + s.cell_bytes
  IN  [result |-> IF s.n_gpu_nbor = 0 THEN res + 2 * IJ_SIZE * SizeofInt ELSE res,
       state |-> s]

\* Neighbor::clear(): the byte counts are reset; if _allocated, it is reset
\* and every device and host buffer is released.
NeighborClear(s) ==
  LET z == [s EXCEPT !.gpu_bytes = 0, !.c_bytes = 0, !.cell_bytes = 0]
  IN  IF s.allocated
      THEN [z EXCEPT !.allocated = FALSE, !.held = FALSE,
                     !.fault = s.fault \/ ~s.held]
      ELSE z

\* ~Neighbor() { clear(); }
Destructor(s) == [NeighborClear(s) EXCEPT !.life = "destroyed"]

SetManagerNext(s) ==
  /\ allocated' = s.allocated
  /\ use_packing' = s.use_packing
  /\ n_gpu_nbor' = s.n_gpu_nbor
  /\ gpu_bytes' = s.gpu_bytes
  /\ c_bytes' = s.c_bytes
  /\ cell_bytes' = s.cell_bytes
  /\ held' = s.held
  /\ fault' = s.fault
  /\ life' = s.life

PackingCall ==
  \E b \in BOOLEAN :
    /\ life # "destroyed"
    /\ SetManagerNext(Packing(Manager, b))
    /\ lastM' = [op |-> "packing", prev |-> lastM.op, pre |-> Constructed, result |-> 0]
    /\ UNCHANGED <<nvars, svars, dvars>>

\* init(shared, inum, host_inum, max_nbors, ..., gpu_nbor, ...): clears what
\* was there, records the mode and the capacities with 10% headroom for the
\* particle counts, and allocates; `ok` is whether the allocation succeeded.
InitCall ==
  \E inum \in InitArgs, host_inum \in InitArgs, mn \in InitArgs, m \in Modes,
     gb \in ByteVals, cb \in ByteVals, lb \in ByteVals, ok \in BOOLEAN :
    /\ life # "destroyed"
    /\ SetManagerNext([NeighborClear(Manager) EXCEPT
                         !.allocated = TRUE, !.held = TRUE, !.n_gpu_nbor = m,
                         !.gpu_bytes = gb, !.c_bytes = cb, !.cell_bytes = lb,
                         !.life = "initialized"])
    /\ max_atoms' = Headroom(inum)
    /\ max_host' = Headroom(host_inum)
    /\ max_nbors' = mn
    /\ buffers' = [atoms |-> Headroom(inum), host |-> Headroom(host_inum),
                   nbors |-> mn, valid |-> ok]
    /\ lastM' = [op |-> "init", prev |-> lastM.op, pre |-> Constructed, result |-> 0]
    /\ UNCHANGED <<lastN, svars, dvars>>

ClearCall ==
  /\ life # "destroyed"
  /\ SetManagerNext([NeighborClear(Manager) EXCEPT
                       !.life = IF life = "constructed" THEN life ELSE "cleared"])
  /\ lastM' = [op |-> "clear", prev |-> lastM.op, pre |-> Manager, result |-> 0]
  /\ UNCHANGED <<nvars, svars, dvars>>

DestructorCall ==
  /\ life # "destroyed"
  /\ SetManagerNext(Destructor(Manager))
  /\ lastM' = [op |-> "destructor", prev |-> lastM.op, pre |-> Manager, result |-> 0]
  /\ UNCHANGED <<nvars, svars, dvars>>

GpuBytesCall ==
  /\ life = "initialized"
  /\ LET g == GpuBytes(Manager) IN
       /\ SetManagerNext(g.state)
       /\ lastM' = [op |-> "gpu_bytes", prev |-> lastM.op, pre |-> Manager,
                    result |-> g.result]
  /\ UNCHANGED <<nvars, svars, dvars>>

-----------------------------------------------------------------------------
(***************************************************************************)
(* Neighbor::copy_unpacked and Neighbor::max_nbor_loop                     *)
(***************************************************************************)

\* The most particles a matrix row holds, and the most neighbors of one.
MaxInum == 2
MaxJ == 1

\* dev_nbor: 1st row i, 2nd row numj, 3rd row starting location in packed
\* nbors, remaining rows the neighbors.
HeaderRows == 3

\* Elements of dev_nbor and of dev_packed, indexed from 0.
NborLen == (HeaderRows + MaxJ) * MaxInum
Cells == 0 .. (NborLen - 1)

\* What a matrix element may hold, and what dev_packed holds before any copy.
NborVals == {1, 2}
Stale == 0

\* A mutant of UclCopy: the copy runs from the packed storage to the matrix.
UclCopyReversed(dst, src, numel) ==
  [dst |-> dst, src |-> [k \in Cells |-> IF k < numel THEN dst[k] ELSE src[k]]]

\* ucl_copy(dst, src, numel, async): the first numel elements of src are
\* written over those of dst.
UclCopy(dst, src, numel) ==
  [dst |-> [k \in Cells |-> IF k < numel THEN src[k] ELSE dst[k]], src |-> src]

\* copy_unpacked(inum, maxj) { ucl_copy(dev_packed,dev_nbor,inum*(maxj+2),true); }
CopyUnpacked(inum, maxj) == UclCopy(dev_packed, dev_nbor, inum * (maxj + 2))

NoCopy == [op |-> "none", inum |-> 0, maxj |-> 0, packing |-> FALSE,
           pre_nbor |-> [k \in Cells |-> Stale], pre_packed |-> [k \in Cells |-> Stale]]

CopyUnpackedCall ==
  \E inum \in 0 .. nbor_pitch, maxj \in 0 .. MaxJ :
    /\ life = "initialized"
    /\ LET c == CopyUnpacked(inum, maxj) IN
         /\ dev_packed' = c.dst
         /\ dev_nbor' = c.src
    /\ lastC' = [op |-> "copy_unpacked", inum |-> inum, maxj |-> maxj,
                 packing |-> use_packing,
                 pre_nbor |-> dev_nbor, pre_packed |-> dev_packed]
    /\ UNCHANGED <<nvars, svars, allocated, use_packing, n_gpu_nbor, gpu_bytes,
                   c_bytes, cell_bytes, held, fault, life, lastM,
                   nbor_pitch, numj, ilist, lastL>>

\* The particles of the caller's arrays, and the neighbor counts they may hold.
NAtoms == 2
Atoms == 0 .. (NAtoms - 1)
CountVals == {-1, 0, 3, 5}

\* std::max
StdMax(a, b) == IF a < b THEN b ELSE a

\* A mutant of Lookup: the count is read by position.
LookupByPosition(nj, il, i) == nj[i]

\* numj[ilist[i]]
Lookup(nj, il, i) == nj[il[i]]

\* The loop of max_nbor_loop from index i on, mn being the maximum so far.
RECURSIVE MaxNborFrom(_, _, _, _, _)
MaxNborFrom(i, mn, inum, nj, il) ==
  IF i < inum
  THEN MaxNborFrom(i + 1, StdMax(mn, Lookup(nj, il, i)), inum, nj, il)
  ELSE mn

\* max_nbor_loop(inum, numj, ilist): the value returned and the two arrays
\* after the call.
MaxNborLoop(inum, nj, il) ==
  [result |-> MaxNborFrom(0, 0, inum, nj, il), numj |-> nj, ilist |-> il]

NoLoop == [op |-> "none", inum |-> 0, result |-> 0,
           pre_numj |-> [a \in Atoms |-> 0], pre_ilist |-> [a \in Atoms |-> 0]]

MaxNborLoopCall ==
  \E inum \in (0 - 1) .. NAtoms :
    /\ LET l == MaxNborLoop(inum, numj, ilist) IN
         /\ numj' = l.numj
         /\ ilist' = l.ilist
         /\ lastL' = [op |-> "max_nbor_loop", inum |-> inum, result |-> l.result,
                      pre_numj |-> numj, pre_ilist |-> ilist]
    /\ UNCHANGED <<nvars, svars, mvars, dev_nbor, dev_packed, nbor_pitch, lastC>>

\* The buffers and the caller's arrays while no call reads them.
IdleData ==
  /\ dev_nbor = [k \in Cells |-> Stale]
  /\ dev_packed = [k \in Cells |-> Stale]
  /\ nbor_pitch = MaxInum
  /\ lastC = NoCopy
  /\ numj = [a \in Atoms |-> 0]
  /\ ilist = [a \in Atoms |-> 0]
  /\ lastL = NoLoop

-----------------------------------------------------------------------------
(***************************************************************************)
(* NeighborShared::compile_kernels and NeighborShared::clear               *)
(***************************************************************************)

Unbound == [bound |-> FALSE, prog |-> "none", loaded |-> FALSE]

\* The registry's fields as one value.
Registry ==
  [compiled |-> compiled, gpu_nbor |-> gpu_nbor, nbor_program |-> nbor_program,
   build_program |-> build_program, kernels |-> kernels, neigh_tex |-> neigh_tex,
   created |-> created, terminated |-> terminated]

\* p=new UCL_Program(dev), p being "nbor_program" or "build_program"
NewProgram(r, p) == [r EXCEPT ![p] = "created", !.created = @ + 1]

\* p->load_string(source,flags)
LoadString(r, p) == [r EXCEPT ![p] = "loaded"]

\* k.set_function(*p,name): the handle is bound from the program as it is now.
SetFunction(r, k, p) ==
  [r EXCEPT !.kernels[k] = [bound |-> TRUE, prog |-> p, loaded |-> r[p] = "loaded"]]

\* k.clear()
KernelClear(r, k) == [r EXCEPT !.kernels[k] = Unbound]

\* delete p.  Deleting a pointer that holds no object (never assigned, or
\* deleted before) is kept apart from deleting a live one.
DeleteProgram(r, p) ==
  [r EXCEPT ![p] = IF r[p] \in {"created", "loaded"} THEN "deleted" ELSE "bad_delete"]

\* A mutant of AlreadyCompiled: the guard is missing.
AlreadyCompiledNever(r) == FALSE

\* if (_compiled) return;
AlreadyCompiled(r) == r.compiled

\* A mutant of HostBranch: the texture is bound in this branch too.
HostBranchWithTexture(r) ==
  LET r1 == NewProgram(r, "nbor_program")
      r2 == LoadString(r1, "nbor_program")
      r3 == SetFunction(r2, "k_nbor", "nbor_program")
  IN  [r3 EXCEPT !.neigh_tex = TRUE]

\* if (gpu_nbor==0) { nbor_program=new ...; load_string; k_nbor.set_function }
HostBranch(r) ==
  LET r1 == NewProgram(r, "nbor_program")
      r2 == LoadString(r1, "nbor_program")
  IN  SetFunction(r2, "k_nbor", "nbor_program")

\* A mutant of Unsupported: every device-build mode is refused on OpenCL.
UnsupportedAnyBuild(be, m) == be = "OPENCL" /\ m > 0

\* #ifdef USE_OPENCL  if (gpu_nbor==1) { ...; exit(1); }
Unsupported(be, m) == be = "OPENCL" /\ m = 1

\* A mutant of NeedsCellKernels: the cell kernels are bound in every build mode.
NeedsCellKernelsAlways(m) == m > 0

\* if (gpu_nbor==1) { k_cell_id.set_function; k_cell_counts.set_function }
NeedsCellKernels(m) == m = 1

\* The else branch: the build program and its kernels.
BuildBranch(r, be, m) ==
  LET r1 == NewProgram(r, "build_program") IN
  IF Unsupported(be, m)
  THEN [r1 EXCEPT !.terminated = TRUE]
  ELSE LET \* #else build_program->load_string(neighbor_gpu,...): not under USE_OPENCL
           r2 == IF be = "CUDA" THEN LoadString(r1, "build_program") ELSE r1
           r3 == IF NeedsCellKernels(m)
                 THEN SetFunction(SetFunction(r2, "k_cell_id", "build_program"),
                                  "k_cell_counts", "build_program")
                 ELSE r2
           r4 == SetFunction(r3, "k_build_nbor", "build_program")
           r5 == SetFunction(r4, "k_transpose", "build_program")
           r6 == SetFunction(r5, "k_special", "build_program")
       IN  [r6 EXCEPT !.neigh_tex = TRUE]

\* A mutant of CompileKernelsBody: _gpu_nbor is assigned before the guard.
CompileKernelsBodyModeFirst(r, be, m) ==
  LET r1 == [r EXCEPT !.gpu_nbor = m] IN
  IF AlreadyCompiled(r)
  THEN r1
  ELSE LET r2 == IF m = 0 THEN HostBranch(r1) ELSE BuildBranch(r1, be, m)
       IN  IF r2.terminated THEN r2 ELSE [r2 EXCEPT !.compiled = TRUE]

\* compile_kernels(dev, gpu_nbor) on the backend be, with gpu_nbor = m
CompileKernelsBody(r, be, m) ==
  IF AlreadyCompiled(r)
  THEN r
  ELSE LET r1 == [r EXCEPT !.gpu_nbor = m]
           r2 == IF m = 0 THEN HostBranch(r1) ELSE BuildBranch(r1, be, m)
       IN  IF r2.terminated THEN r2 ELSE [r2 EXCEPT !.compiled = TRUE]

\* A mutant of ClearBuildKernels: k_special is forgotten.
ClearBuildKernelsNoSpecial(r) ==
  KernelClear(KernelClear(r, "k_build_nbor"), "k_transpose")

\* k_build_nbor.clear(); k_transpose.clear(); k_special.clear();
ClearBuildKernels(r) ==
  KernelClear(KernelClear(KernelClear(r, "k_build_nbor"), "k_transpose"), "k_special")

\* A mutant of ClearBody: the outer test is _gpu_nbor==1 instead of _gpu_nbor>0.
ClearBodyModeOne(r) ==
  IF r.compiled
  THEN LET r1 == IF r.gpu_nbor = 1
                 THEN LET a == KernelClear(KernelClear(r, "k_cell_id"), "k_cell_counts")
                      IN  DeleteProgram(ClearBuildKernels(a), "build_program")
                 ELSE DeleteProgram(KernelClear(r, "k_nbor"), "nbor_program")
       IN  [r1 EXCEPT !.compiled = FALSE, !.created = 0]
  ELSE r

\* A mutant of ClearBody: _compiled=false is forgotten.
ClearBodyStaysCompiled(r) ==
  IF r.compiled
  THEN LET r1 == IF r.gpu_nbor > 0
                 THEN LET a == IF r.gpu_nbor = 1
                               THEN KernelClear(KernelClear(r, "k_cell_id"),
                                                "k_cell_counts")
                               ELSE r
                      IN  DeleteProgram(ClearBuildKernels(a), "build_program")
                 ELSE DeleteProgram(KernelClear(r, "k_nbor"), "nbor_program")
       IN  [r1 EXCEPT !.created = 0]
  ELSE r

\* NeighborShared::clear().  A release starts the count of created programs again.
ClearBody(r) ==
  IF r.compiled
  THEN LET r1 == IF r.gpu_nbor > 0
                 THEN LET a == IF r.gpu_nbor = 1
                               THEN KernelClear(KernelClear(r, "k_cell_id"),
                                                "k_cell_counts")
                               ELSE r
                      IN  DeleteProgram(ClearBuildKernels(a), "build_program")
                 ELSE DeleteProgram(KernelClear(r, "k_nbor"), "nbor_program")
       IN  [r1 EXCEPT !.compiled = FALSE, !.created = 0]
  ELSE r

SetRegistry(r) ==
  /\ compiled' = r.compiled
  /\ gpu_nbor' = r.gpu_nbor
  /\ nbor_program' = r.nbor_program
  /\ build_program' = r.build_program
  /\ kernels' = r.kernels
  /\ neigh_tex' = r.neigh_tex
  /\ created' = r.created
  /\ terminated' = r.terminated

\* The call before the one being made was a clear() that released a compiled
\* registry.
Released == lastS.op = "clear" /\ lastS.pre.compiled

\* Some manager's init calls _shared->compile_kernels(dev, m).
CompileKernels(m) ==
  /\ ~terminated
  /\ SetRegistry(CompileKernelsBody(Registry, backend, m))
  /\ lastS' = [op |-> "compile", mode |-> m, pre |-> Registry,
               after_release |-> Released]
  /\ UNCHANGED <<backend, nvars, mvars, dvars>>

\* The driver calls clear().
Clear ==
  /\ ~terminated
  /\ SetRegistry(ClearBody(Registry))
  /\ lastS' = [op |-> "clear", mode |-> 0, pre |-> Registry,
               after_release |-> Released]
  /\ UNCHANGED <<backend, nvars, mvars, dvars>>

\* The registry as constructed: not compiled, no program, no kernel bound;
\* _gpu_nbor is not initialized and holds any value.
InitShared ==
  /\ backend \in Backends
  /\ compiled = FALSE
  /\ gpu_nbor \in Modes
  /\ nbor_program = "none"
  /\ build_program = "none"
  /\ kernels = [k \in Kernels |-> Unbound]
  /\ neigh_tex = FALSE
  /\ created = 0
  /\ terminated = FALSE
  /\ lastS = [op |-> "none", mode |-> 0, pre |-> Registry, after_release |-> FALSE]

-----------------------------------------------------------------------------
\* A manager after init, resizing, or a registry being compiled and cleared:
\* the manager's lifecycle fields are those of an initialized manager.
Init ==
  /\ InitNeighbor
  /\ InitShared
  /\ SetManager(Initialized(0, 0, 0, 0))
  /\ lastM = NoCall
  /\ IdleData

NextNeighbor == Resize3Call \/ Resize4Call

NextShared == (\E m \in Modes : CompileKernels(m)) \/ Clear

\* One manager resizing.  resize reads and writes nothing of the registry,
\* which is left as constructed in one build.
InitOneBuild == Init /\ backend = "CUDA" /\ gpu_nbor = 0

SpecNeighbor == InitOneBuild /\ [][NextNeighbor]_vars

\* Any number of managers and the driver calling into the shared registry.
SpecShared == Init /\ [][NextShared]_vars

\* The registry left as constructed in one build, the capacities not yet set.
InitConstructed ==
  /\ InitShared /\ backend = "CUDA" /\ gpu_nbor = 0
  /\ max_atoms = Undef /\ max_host = Undef /\ max_nbors = Undef
  /\ buffers = [atoms |-> 0, host |-> 0, nbors |-> 0, valid |-> FALSE]
  /\ lastN = [op |-> "none", inum |-> 0, host_inum |-> 0, max_nbor |-> 0,
              success_in |-> TRUE, success_out |-> TRUE,
              pre |-> [max_atoms |-> max_atoms, max_host |-> max_host,
                       max_nbors |-> max_nbors, buffers |-> buffers],
              allocs |-> <<>>]
  /\ SetManager(Constructed)
  /\ lastM = NoCall
  /\ IdleData

NextLifecycle == PackingCall \/ InitCall \/ ClearCall \/ DestructorCall

\* One manager from its construction to its destruction.
SpecLifecycle == InitConstructed /\ [][NextLifecycle]_vars

\* A manager after init for any mode, with any byte counts recorded.
InitAccounting ==
  /\ InitNeighbor
  /\ InitShared /\ backend = "CUDA" /\ gpu_nbor = 0
  /\ \E m \in Modes, gb \in ByteVals, cb \in ByteVals, lb \in ByteVals :
       SetManager(Initialized(m, gb, cb, lb))
  /\ lastM = NoCall
  /\ IdleData

NextAccounting == GpuBytesCall \/ PackingCall

\* The accounting calls on an initialized manager.
SpecAccounting == InitAccounting /\ [][NextAccounting]_vars

\* An initialized manager whose matrix holds any neighbor data and whose
\* packed storage holds none of it yet.
InitCopy ==
  /\ InitNeighbor /\ max_atoms = 0 /\ max_host = 0 /\ max_nbors = 0
  /\ InitShared /\ backend = "CUDA" /\ gpu_nbor = 0
  /\ SetManager(Initialized(0, 0, 0, 0))
  /\ lastM = NoCall
  /\ dev_nbor \in [Cells -> NborVals]
  /\ dev_packed = [k \in Cells |-> Stale]
  /\ nbor_pitch \in 1 .. MaxInum
  /\ lastC = NoCopy
  /\ numj = [a \in Atoms |-> 0]
  /\ ilist = [a \in Atoms |-> 0]
  /\ lastL = NoLoop

NextCopy == CopyUnpackedCall \/ PackingCall

\* copy_unpacked on an initialized manager, packing switched on or off.
SpecCopy == InitCopy /\ [][NextCopy]_vars

\* Any counts and any list of valid particle indices in the caller's hands.
InitLoop ==
  /\ InitNeighbor /\ max_atoms = 0 /\ max_host = 0 /\ max_nbors = 0
  /\ InitShared /\ backend = "CUDA" /\ gpu_nbor = 0
  /\ SetManager(Initialized(0, 0, 0, 0))
  /\ lastM = NoCall
  /\ dev_nbor = [k \in Cells |-> Stale]
  /\ dev_packed = [k \in Cells |-> Stale]
  /\ nbor_pitch = MaxInum
  /\ lastC = NoCopy
  /\ numj \in [Atoms -> CountVals]
  /\ ilist \in [Atoms -> Atoms]
  /\ lastL = NoLoop

NextLoop == MaxNborLoopCall

\* max_nbor_loop on the caller's arrays.
SpecLoop == InitLoop /\ [][NextLoop]_vars

Next == NextNeighbor \/ NextShared \/ NextLifecycle \/ GpuBytesCall
        \/ CopyUnpackedCall \/ MaxNborLoopCall

Spec == Init /\ [][Next]_vars

-----------------------------------------------------------------------------
(***************************************************************************)
(* Properties of resize                                                    *)
(***************************************************************************)

IsResize == lastN.op \in {"resize3", "resize4"}

\* No dimension the call names exceeds the allocation it found.
NoDimensionExceeds ==
  /\ IsResize
  /\ lastN.inum <= lastN.pre.max_atoms
  /\ lastN.max_nbor <= lastN.pre.max_nbors
  /\ lastN.op = "resize4" => lastN.host_inum <= lastN.pre.max_host

SomeDimensionExceeds == IsResize /\ ~NoDimensionExceeds

\* C1: after every resize call each of max_atoms, max_host and max_nbors is
\* at least what it was before the call.
C1_CapacityMonotone ==
  IsResize =>
    /\ max_atoms >= lastN.pre.max_atoms
    /\ max_host >= lastN.pre.max_host
    /\ max_nbors >= lastN.pre.max_nbors

\* C7: a resize call in which no dimension exceeds the current allocation
\* leaves the capacities, the buffers and the caller's success flag as they
\* were and calls alloc not at all.
C7_ResizeNoOp ==
  NoDimensionExceeds =>
    /\ max_atoms = lastN.pre.max_atoms
    /\ max_host = lastN.pre.max_host
    /\ max_nbors = lastN.pre.max_nbors
    /\ buffers = lastN.pre.buffers
    /\ lastN.success_out = lastN.success_in
    /\ lastN.allocs = <<>>

\* A 4-argument call whose inum equals a non-zero max_atoms, with neither
\* other dimension above its capacity, made with the flag already false.
C7_Witness ==
  /\ NoDimensionExceeds
  /\ lastN.op = "resize4"
  /\ lastN.inum = lastN.pre.max_atoms
  /\ lastN.inum > 0
  /\ ~lastN.success_in

\* new is req*1.10 truncated, and at least 1.10 times old, when req exceeds old.
GrewBy10(old, req, new) ==
  req > old =>
    /\ 10 * new >= 11 * old
    /\ 10 * new <= 11 * req
    /\ 11 * req < 10 * new + 10

\* C8: in every resize call, each dimension whose request exceeds its
\* capacity gets the request times 1.10, truncated, as its new capacity, and
\* that is at least 1.10 times the capacity before (10*new >= 11*old).
C8_GrowthAtLeast10Percent ==
  IsResize =>
    /\ GrewBy10(lastN.pre.max_atoms, lastN.inum, max_atoms)
    /\ GrewBy10(lastN.pre.max_nbors, lastN.max_nbor, max_nbors)
    /\ lastN.op = "resize4" =>
         GrewBy10(lastN.pre.max_host, lastN.host_inum, max_host)

\* All three dimensions exceeded non-zero capacities by one and grew.
C8_Witness ==
  /\ lastN.op = "resize4"
  /\ lastN.pre.max_atoms > 0 /\ lastN.inum = lastN.pre.max_atoms + 1
  /\ lastN.pre.max_host > 0 /\ lastN.host_inum = lastN.pre.max_host + 1
  /\ lastN.pre.max_nbors > 0 /\ lastN.max_nbor = lastN.pre.max_nbors + 1
  /\ max_atoms > lastN.inum

\* C9: a resize call in which some dimension exceeds the allocation calls
\* alloc exactly once, with every capacity field already at its final value,
\* so that the whole buffer set is sized to the new capacities; the caller's
\* flag stays true only if it was true and the allocation succeeded.
C9_ReallocOnce ==
  SomeDimensionExceeds =>
    /\ Len(lastN.allocs) = 1
    /\ lastN.allocs[1] = <<max_atoms, max_host, max_nbors>>
    /\ buffers.atoms = max_atoms
    /\ buffers.host = max_host
    /\ buffers.nbors = max_nbors
    /\ lastN.success_out = (lastN.success_in /\ buffers.valid)

\* Only max_nbor exceeded, in a 4-argument call, and the allocation failed.
C9_Witness ==
  /\ lastN.op = "resize4"
  /\ lastN.max_nbor > lastN.pre.max_nbors
  /\ lastN.inum <= lastN.pre.max_atoms
  /\ lastN.host_inum <= lastN.pre.max_host
  /\ lastN.success_in /\ ~lastN.success_out
  /\ Len(lastN.allocs) = 1

-----------------------------------------------------------------------------
(***************************************************************************)
(* Properties of the registry                                              *)
(***************************************************************************)

Bound(k) == kernels[k].bound

Live(p) == p \in {"created", "loaded"}

IsCompile == lastS.op = "compile"

\* The last call was compile_kernels(m) and found the registry not compiled.
FreshCompile(m) == IsCompile /\ ~lastS.pre.compiled /\ lastS.mode = m

BuildKernels == {"k_build_nbor", "k_transpose", "k_special"}

CellKernels == {"k_cell_id", "k_cell_counts"}

\* C2 as claimed: whenever compile_kernels(m) returns, the recorded mode is m and the
\* kernels of mode m are bound: k_nbor for m = 0; the build, transpose and
\* special kernels for m > 0.
C2_ModeKeyed ==
  (IsCompile /\ ~terminated) =>
    /\ gpu_nbor = lastS.mode
    /\ lastS.mode = 0 => Bound("k_nbor")
    /\ lastS.mode > 0 => \A k \in BuildKernels : Bound(k)

\* C2 as amended: whenever compile_kernels(m) called on a registry that is
\* not compiled returns, the registry is compiled, its recorded mode is m and
\* the kernels of mode m are bound; a call on a compiled registry leaves the
\* recorded mode and the kernels of the compilation in effect.
C2_ModeKeyedFresh ==
  /\ \A m \in Modes :
       (FreshCompile(m) /\ ~terminated) =>
         /\ compiled
         /\ gpu_nbor = m
         /\ m = 0 => Bound("k_nbor")
         /\ m > 0 => \A k \in BuildKernels : Bound(k)
  /\ (IsCompile /\ lastS.pre.compiled) =>
       /\ gpu_nbor = lastS.pre.gpu_nbor
       /\ kernels = lastS.pre.kernels

\* A registry compiled for mode 0 and released is compiled anew for mode 2.
C2_Witness ==
  /\ FreshCompile(2)
  /\ lastS.pre.nbor_program = "deleted"
  /\ gpu_nbor = 2
  /\ Bound("k_special")

\* C3: compile_kernels on a compiled registry changes nothing of it, whatever
\* the mode, and no more than one program is created between two releases.
C3_CompileIdempotent ==
  /\ (IsCompile /\ lastS.pre.compiled) => Registry = lastS.pre
  /\ created <= 1

\* A call on a compiled registry with a mode other than the recorded one.
C3_Witness ==
  /\ IsCompile
  /\ lastS.pre.compiled
  /\ lastS.mode # lastS.pre.gpu_nbor

\* C4 as claimed: in modes 1 and 2 alike a compile_kernels call on an
\* uncompiled registry binds the cell-id, cell-count, build, transpose and
\* special kernels.
C4_WholeBundle ==
  \A m \in {1, 2} :
    FreshCompile(m) => \A k \in CellKernels \cup BuildKernels : Bound(k)

\* C4 as amended: a compile_kernels call on an uncompiled registry that
\* returns binds the build, transpose and special kernels in modes 1 and 2,
\* and the cell-id and cell-count kernels in mode 1 only; in mode 2 these two
\* are left unbound.
C4_BundleByMode ==
  \A m \in {1, 2} :
    (FreshCompile(m) /\ ~terminated) =>
      /\ \A k \in BuildKernels : Bound(k)
      /\ \A k \in CellKernels : Bound(k) <=> (m = 1)

\* A mode-2 compilation of an uncompiled registry has returned.
C4_Witness == FreshCompile(2) /\ compiled /\ Bound("k_build_nbor")

\* C5: with mode 0 a compile_kernels call on an uncompiled registry creates
\* and loads the unpack program and binds k_nbor from it, and nothing else:
\* one program is created, build_program is as it was, the five build
\* kernels are as they were, unbound, and the texture is as it was.
C5_HostModeOnlyUnpack ==
  FreshCompile(0) =>
    /\ compiled
    /\ nbor_program = "loaded"
    /\ kernels["k_nbor"] = [bound |-> TRUE, prog |-> "nbor_program", loaded |-> TRUE]
    /\ created = lastS.pre.created + 1
    /\ build_program = lastS.pre.build_program
    /\ \A k \in CellKernels \cup BuildKernels :
         kernels[k] = lastS.pre.kernels[k] /\ ~Bound(k)
    /\ neigh_tex = lastS.pre.neigh_tex

\* A mode-0 compilation of a registry that never held a build program.
C5_Witness ==
  /\ FreshCompile(0)
  /\ compiled
  /\ lastS.pre.build_program = "none"
  /\ ~neigh_tex

\* C6: clear() on a compiled registry leaves it not compiled, with no kernel
\* bound and no program alive, the program the compilation created being
\* deleted; clear() on a registry that is not compiled changes nothing.
C6_ClearIdempotentComplete ==
  lastS.op = "clear" =>
    IF lastS.pre.compiled
    THEN /\ ~compiled
         /\ \A k \in Kernels : ~Bound(k)
         /\ ~Live(nbor_program) /\ ~Live(build_program)
         /\ Live(lastS.pre.nbor_program) => nbor_program = "deleted"
         /\ Live(lastS.pre.build_program) => build_program = "deleted"
    ELSE Registry = lastS.pre

\* clear() called again after a release of a build-mode compilation.
C6_Witness ==
  /\ lastS.op = "clear"
  /\ ~lastS.pre.compiled
  /\ build_program = "deleted"

\* C10: on OpenCL, compile_kernels(1) on an uncompiled registry terminates
\* the process with no kernel bound and the registry not compiled; nothing
\* else terminates it.
C10_UnsupportedFatal ==
  /\ (backend = "OPENCL" /\ FreshCompile(1)) =>
       /\ terminated
       /\ ~compiled
       /\ \A k \in Kernels : ~Bound(k)
  /\ terminated => (backend = "OPENCL" /\ FreshCompile(1) /\ ~compiled)

\* The process has been terminated by compile_kernels.
C10_Witness == terminated /\ IsCompile /\ build_program = "created"

-----------------------------------------------------------------------------
(***************************************************************************)
(* Further properties of resize                                            *)
(***************************************************************************)

\* C15: after any resize call, growing or not, inum <= max_atoms and
\* max_nbor <= max_nbors, and after the 4-argument form host_inum <= max_host.
C15_CapacitySufficient ==
  IsResize =>
    /\ lastN.inum <= max_atoms
    /\ lastN.max_nbor <= max_nbors
    /\ lastN.op = "resize4" => lastN.host_inum <= max_host

\* A 4-argument call in which only inum exceeded, the other two requests
\* being non-zero and within their capacities.
C15_Witness ==
  /\ lastN.op = "resize4"
  /\ lastN.inum > lastN.pre.max_atoms
  /\ 0 < lastN.host_inum /\ lastN.host_inum <= lastN.pre.max_host
  /\ 0 < lastN.max_nbor /\ lastN.max_nbor <= lastN.pre.max_nbors

\* C16: a resize call changes max_nbors only when its max_nbor is greater
\* than max_nbors, and then to a greater value; a call made to grow for inum
\* or host_inum alone leaves max_nbors as it was.
C16_MaxNborsFrame ==
  IsResize =>
    IF lastN.max_nbor > lastN.pre.max_nbors
    THEN max_nbors > lastN.pre.max_nbors
    ELSE max_nbors = lastN.pre.max_nbors

\* A call that reallocated for inum alone, with a non-zero max_nbor strictly
\* below max_nbors.
C16_Witness ==
  /\ IsResize
  /\ lastN.inum > lastN.pre.max_atoms
  /\ 0 < lastN.max_nbor /\ lastN.max_nbor < lastN.pre.max_nbors
  /\ Len(lastN.allocs) = 1

-----------------------------------------------------------------------------
(***************************************************************************)
(* Further properties of the registry                                      *)
(***************************************************************************)

\* The program a compilation for mode m creates, and the other one.
ProgramOf(m) == IF m > 0 THEN "build_program" ELSE "nbor_program"

OtherProgram(m) == IF m > 0 THEN "nbor_program" ELSE "build_program"

\* C17: for any sequence of compile_kernels and clear calls, a compiled
\* registry holds alive exactly the program of its recorded mode; clear() on
\* it deletes that program, which was alive, leaves the other pointer as it
\* was, and unbinds every handle, all of which were bound from that program;
\* delete never hits a pointer that holds no object.
C17_PairedRelease ==
  /\ nbor_program # "bad_delete"
  /\ build_program # "bad_delete"
  /\ compiled =>
       /\ Live(Registry[ProgramOf(gpu_nbor)])
       /\ ~Live(Registry[OtherProgram(gpu_nbor)])
  /\ (lastS.op = "clear" /\ lastS.pre.compiled) =>
       LET p == ProgramOf(lastS.pre.gpu_nbor)
           q == OtherProgram(lastS.pre.gpu_nbor)
       IN  /\ Live(lastS.pre[p])
           /\ Registry[p] = "deleted"
           /\ Registry[q] = lastS.pre[q]
           /\ ~Live(Registry[q])
           /\ \A k \in Kernels :
                lastS.pre.kernels[k].bound => lastS.pre.kernels[k].prog = p
           /\ \A k \in Kernels : ~Bound(k)

\* A mode-2 compilation is released after a mode-0 compilation was released
\* earlier: build_program is deleted now, nbor_program was deleted then.
C17_Witness ==
  /\ lastS.op = "clear"
  /\ lastS.pre.compiled
  /\ lastS.pre.gpu_nbor = 2
  /\ lastS.pre.nbor_program = "deleted"
  /\ build_program = "deleted"

\* The kernels compile_kernels binds for mode m.
KernelSet(m) ==
  IF m = 0 THEN {"k_nbor"}
  ELSE IF m = 1 THEN CellKernels \cup BuildKernels
  ELSE BuildKernels

\* The last call was compile_kernels, made right after a release.
CompileAfterRelease == IsCompile /\ lastS.after_release

\* C18 as claimed: the compile_kernels(m) call that follows a release
\* records m, binds the kernels of m and leaves the registry compiled.
C18_ReusableAfterRelease ==
  CompileAfterRelease =>
    /\ compiled
    /\ gpu_nbor = lastS.mode
    /\ \A k \in Kernels : Bound(k) <=> k \in KernelSet(lastS.mode)

\* C18 as amended: the same, except that on OpenCL with m = 1 the call
\* terminates the process and the registry stays not compiled.
C18_ReusableUnlessUnsupported ==
  CompileAfterRelease =>
    IF backend = "OPENCL" /\ lastS.mode = 1
    THEN terminated /\ ~compiled
    ELSE /\ ~terminated
         /\ compiled
         /\ gpu_nbor = lastS.mode
         /\ created = 1
         /\ \A k \in Kernels : Bound(k) <=> k \in KernelSet(lastS.mode)

\* A registry released from mode 0 has been compiled for mode 1.
C18_Witness ==
  /\ CompileAfterRelease
  /\ lastS.pre.gpu_nbor = 0
  /\ lastS.mode = 1
  /\ compiled
  /\ Bound("k_cell_id")

\* C19: every bound kernel handle was bound from a program into which
\* source had been loaded.
C19_BoundFromLoaded ==
  \A k \in Kernels : Bound(k) => kernels[k].loaded

\* C11: gpu_bytes() returns _gpu_bytes + _c_bytes + _cell_bytes, plus
\* 2*IJ_SIZE*sizeof(int) = 1048576 bytes exactly when the manager's mode is 0
\* (neighbor lists built on the host), and it changes no field of the manager.
C11_GpuBytesSum ==
  lastM.op = "gpu_bytes" =>
    /\ lastM.result = lastM.pre.gpu_bytes + lastM.pre.c_bytes + lastM.pre.cell_bytes
                      + (IF lastM.pre.n_gpu_nbor = 0 THEN 2 * 131072 * 4 ELSE 0)
    /\ Manager = lastM.pre

\* gpu_bytes() has been called on a manager built for mode 0 whose counters
\* are not all zero, and returned their sum plus the staging buffers.
C11_Witness ==
  /\ lastM.op = "gpu_bytes"
  /\ lastM.pre.n_gpu_nbor = 0
  /\ lastM.pre.gpu_bytes > 0
  /\ lastM.pre.cell_bytes = 0
  /\ lastM.result > 2 * IJ_SIZE * SizeofInt

\* The calls that run the body of Neighbor::clear() and nothing after it.
IsManagerClear == lastM.op \in {"clear", "destructor"}

\* A manager value without the mark the destructor leaves on it.
SameButLife(s) == [s EXCEPT !.life = "any"]

At(buf, r, i) == buf[r * nbor_pitch + i]

\* C13: with packing enabled, after copy_unpacked(inum, maxj) dev_packed holds
\* for each of the inum particles the three header rows and all maxj neighbor
\* rows of dev_nbor, and dev_nbor is what it was before the call.
C13_CopiesWholeMatrix ==
  (lastC.op = "copy_unpacked" /\ lastC.packing) =>
    /\ \A i \in 0 .. (lastC.inum - 1) :
         \A r \in 0 .. (HeaderRows + lastC.maxj - 1) :
           At(dev_packed, r, i) = At(dev_nbor, r, i)
    /\ dev_nbor = lastC.pre_nbor

\* The largest element of a finite set of integers, 0 for the empty set.
SetMax(S) == IF S = {} THEN 0 ELSE CHOOSE x \in S : \A y \in S : y <= x

\* C14: max_nbor_loop(inum, numj, ilist) returns the larger of 0 and the
\* largest numj[ilist[i]] for i in [0, inum), which is 0 when inum <= 0, and
\* leaves numj and ilist as they were.
C14_MaxOverListed ==
  lastL.op = "max_nbor_loop" =>
    /\ lastL.result =
         StdMax(0, SetMax({lastL.pre_numj[lastL.pre_ilist[i]] :
                             i \in 0 .. (lastL.inum - 1)}))
    /\ lastL.inum <= 0 => lastL.result = 0
    /\ numj = lastL.pre_numj
    /\ ilist = lastL.pre_ilist

\* The loop ran over every entry of a list that names particle 1 twice, and
\* returned its count although particle 0, which is not listed, has more.
C14_Witness ==
  /\ lastL.op = "max_nbor_loop"
  /\ lastL.inum = NAtoms
  /\ \A i \in Atoms : lastL.pre_ilist[i] = 1
  /\ lastL.pre_numj[0] = 5
  /\ lastL.pre_numj[1] = 3
  /\ lastL.result = 3

=============================================================================
